---- MODULE Spec2Model ----
(***************************************************************************)
(* audisp-filter (audisp/plugins/filter/audisp-filter.c): a plugin that    *)
(* loads a rule file, spawns a consumer program behind a pipe, and for     *)
(* every audit event decides from the rules and the allowlist/blocklist    *)
(* mode whether the event's records are written to the consumer.           *)
(*                                                                         *)
(* The main thread is modelled by its position pc; the three signal        *)
(* handlers run asynchronously between any two of its steps.  The auparse  *)
(* matching engine and the auplugin event feed are libraries outside the   *)
(* plugin's source; they are modelled from their documented contract.      *)
(***************************************************************************)
EXTENDS Integers, Sequences, FiniteSets, TLC

(* ------------------------------ bounds --------------------------------- *)
MaxLines == 2
MaxEvents == 2
MaxRecords == 2
MaxSignals == 2
\* stands for sizeof(buf) in load_rules, and the longest file read
BufSize == 4
MaxFileLen == 7

(* --------------------------- program constants ------------------------- *)
ALLOWLIST == 0
BLOCKLIST == 1
ModeUnset == -1
CpidUnset == -1

(* ------------------------------ environment ---------------------------- *)
ParentPid == 10
OtherPid == 11
ChildPid == 12

\* rc and forward_event are locals of handle_event with no initializer
Unassigned == 9

\* The characters a config line is made of, and the lines a file may hold:
\* an expression, an expression behind a leading space, and an expression
\* the engine rejects.
LineSet == { <<"a">>, <<" ", "b">>, <<"!">> }

RECURSIVE SeqsUpTo(_, _)
SeqsUpTo(S, n) ==
  IF n = 0 THEN { <<>> }
  ELSE LET shorter == SeqsUpTo(S, n - 1)
       IN shorter \cup { Append(s, x) : s \in { t \in shorter : Len(t) = n - 1 }, x \in S }

\* What open() and the fstat() result can be for the config path: a file
\* that cannot be opened, or one that can, with its owner, mode and lines
FileSet ==
  [ io : {"ENOENT", "EACCES"}, uid : {0}, woth : {FALSE}, reg : {TRUE},
    lines : { <<>> } ]
  \cup
  [ io : {"ok"}, uid : {0, 1000}, woth : BOOLEAN, reg : BOOLEAN,
    lines : SeqsUpTo(LineSet, MaxLines) ]

Exprs == { <<"a">>, <<"b">> }
EventSet == [ m : { {}, { <<"a">> } }, n : 1..MaxRecords ]

\* the bytes a config file is made of: a letter, a space, the comment sign,
\* a byte the engine rejects, and the newline 0x0a
LF == "\n"
Chars == { "a", " ", "#", "!", LF }

\* the files load_rules is run on byte by byte: every readable file of up
\* to MaxFileLen bytes, and small files that cannot be opened or fail the
\* ownership and mode checks
LoadFiles ==
  [ io : {"ok"}, uid : {0}, woth : {FALSE}, reg : {TRUE},
    bytes : SeqsUpTo(Chars, MaxFileLen) ]
  \cup
  [ io : {"ok", "ENOENT", "EACCES"}, uid : {0, 1000}, woth : BOOLEAN, reg : BOOLEAN,
    bytes : { <<>>, << "a", LF >> } ]

ArgSet == { "check", "allowlist", "blocklist", "invalid" }

\* the bytes of "\n", and of the text of record i (from 0) of the k-th event
NL == <<0, 0>>
RecordTextFirst(k, i) == <<k, 1>>
RecordText(k, i) == <<k, i + 1>>

VARIABLES
  pc,             \* position of the main thread
  status,         \* exit status of the process once pc = "exit"
  argv,           \* the command line
  mode,           \* config.mode
  only_check,     \* config.only_check
  stop,           \* static volatile int stop
  hup,            \* static volatile int hup
  errors,         \* static int errors
  list,           \* static struct filter_list list: the Active Rule Set
  cpid,           \* pid_t cpid
  rules_loaded,   \* static int rules_loaded of handle_event
  handlers,       \* the sigaction() calls have been made
  pipefd,         \* pipe(pipefd) has created the pipe
  engine,         \* expressions registered with the feed's auparse state
  feed_stop,      \* the flag auplugin_stop() sets
  cur,            \* the event handle_event was called for
  rc,             \* handle_event's rc
  forward_event,  \* handle_event's forward_event
  ri,             \* handle_event's loop index i
  blocked,        \* the current write() is blocked on a full pipe
  pipe,           \* everything written to pipefd[1] so far
  child,          \* the forked process
  hpc,            \* position inside term_handler
  last_kill,      \* the latest kill() call: <<target, signal>>
  nsig,           \* signals other processes have sent so far
  startfail,      \* which part of consumer start-up failed
  hist,           \* per delivered event: what became of it
  lastload,       \* what the latest load_rules call saw and did
  last_good,      \* the rules produced by the latest load_rules that returned 0
  unserved,       \* SIGHUPs handled since the latest load_rules call began: 0 none,
                  \* 1 some, 2 some and an event was delivered after the first
  fl,             \* the config file load_rules opens: fstat() result and bytes
  fpos,           \* read position of FILE* f
  buf,            \* char buf[] of load_rules
  too_long,       \* get_line's too_long
  ld_lineno,      \* load_rules' lineno
  load_ret,       \* the value load_rules returned
  warned,         \* file line during which each "too long" warning was logged
  returned,       \* the lines get_line returned, with their place in the file
  handed          \* the expressions parse_line passed to ausearch_add_expression

vars == << pc, status, argv, mode, only_check, stop, hup, errors, list, cpid,
           rules_loaded, handlers, pipefd, engine, feed_stop, cur, rc, forward_event,
           ri, blocked, pipe, child, hpc, last_kill, nsig, startfail, hist, lastload,
           last_good, unserved, fl, fpos, buf, too_long, ld_lineno, load_ret,
           warned, returned, handed >>

cfgVars == << argv, mode, only_check >>
locals == << cur, rc, forward_event, ri >>
evVars == << cur, rc, forward_event, ri, blocked, pipe, hist >>
ruleVars == << errors, list, lastload, last_good >>
sigVars == << stop, hup, feed_stop, hpc, last_kill, nsig >>
procVars == << cpid, handlers, pipefd, child, startfail >>
ldVars == << fl, fpos, buf, too_long, ld_lineno, load_ret, warned, returned, handed >>

NoEvent == [ m |-> {}, n |-> 0 ]
NoKill == << 0, "none" >>
NoFile == [ io |-> "ENOENT", uid |-> 0, woth |-> FALSE, reg |-> TRUE, bytes |-> <<>> ]
NoLoad == [ call |-> "none", violation |-> FALSE, read |-> FALSE,
            rejected |-> 0, accepted |-> 0 ]

(* ------------------------- the matching engine ------------------------- *)
\* ausearch_add_expression: whether the engine accepts an expression
EngineAccepts(expr) == \A i \in 1..Len(expr) : expr[i] # "!"

\* whether event e satisfies expression expr
Matches(e, expr) == expr \in e.m

\* ausearch_cur_event: > 0 matched, 0 not matched, < 0 error
AusearchCurEvent(e, registered, fails) ==
  IF fails THEN -1
  ELSE IF \E i \in 1..Len(registered) : Matches(e, registered[i]) THEN 1
  ELSE 0

(* ----------------------------- config loader --------------------------- *)
RECURSIVE SkipSpaces(_)
SkipSpaces(line) ==
  IF line # <<>> /\ Head(line) = " " THEN SkipSpaces(Tail(line)) ELSE line

ParseLineUncounted(line, lineno) ==
  LET text == SkipSpaces(line)
  IN IF text = <<>> \/ Head(text) = "#"
       THEN [ rule |-> <<>>, err |-> 0, asked |-> FALSE ]
     ELSE IF ~EngineAccepts(text)
       THEN [ rule |-> <<>>, err |-> 0, asked |-> TRUE ]
     ELSE [ rule |-> << [ expr |-> text, lineno |-> lineno ] >>, err |-> 0,
            asked |-> TRUE ]

\* parse_line: the rule a line yields, or none; counts a rejected expression,
\* and whether the line was passed to the engine
ParseLine(line, lineno) ==
  LET text == SkipSpaces(line)
  IN IF text = <<>> \/ Head(text) = "#"
       THEN [ rule |-> <<>>, err |-> 0, asked |-> FALSE ]
     ELSE IF ~EngineAccepts(text)
       THEN [ rule |-> <<>>, err |-> 1, asked |-> TRUE ]
     ELSE [ rule |-> << [ expr |-> text, lineno |-> lineno ] >>, err |-> 0,
            asked |-> TRUE ]

\* the while loop of load_rules over the lines get_line returns
RECURSIVE ReadLines(_, _, _, _)
ReadLines(lines, lineno, acc, errs) ==
  IF lines = <<>> THEN [ list |-> acc, errors |-> errs ]
  ELSE LET p == ParseLine(Head(lines), lineno + 1)
       IN ReadLines(Tail(lines), lineno + 1, acc \o p.rule, errs + p.err)

GateRejectsOwnerOnly(f) == f.uid # 0 \/ ~f.reg

\* the ownership and mode checks on the fstat() result
GateRejects(f) == f.uid # 0 \/ f.woth \/ ~f.reg

\* load_rules: the list it leaves behind, errors, its return value, and
\* whether the file's contents were read
LoadRules(f) ==
  IF f.io # "ok" \/ GateRejects(f)
    THEN [ list |-> <<>>, errors |-> 0, rc |-> 1, read |-> FALSE ]
  ELSE LET r == ReadLines(f.lines, 0, <<>>, 0)
       IN [ list |-> r.list, errors |-> r.errors, rc |-> r.errors, read |-> TRUE ]

\* what the claim calls a file that must not be loaded
GateViolation(f) == f.uid # 0 \/ f.woth \/ ~f.reg

NumRejected(f) ==
  Cardinality({ i \in 1..Len(f.lines) :
                  LET t == SkipSpaces(f.lines[i])
                  IN t # <<>> /\ Head(t) # "#" /\ ~EngineAccepts(t) })

LoadRecord(f, r, which) ==
  [ call |-> which,
    violation |-> GateViolation(f),
    read |-> r.read,
    rejected |-> IF r.read THEN NumRejected(f) ELSE 0,
    accepted |-> Len(r.list) ]

(* -------------------------------- Init --------------------------------- *)
Init ==
  /\ pc = "parse_args"
  /\ status = 0
  /\ argv \in ArgSet
  /\ mode = ModeUnset
  /\ only_check = 0
  /\ stop = 0
  /\ hup = 0
  /\ errors = 0
  /\ list = <<>>
  /\ cpid = CpidUnset
  /\ rules_loaded = 0
  /\ handlers = FALSE
  /\ pipefd = FALSE
  /\ engine = <<>>
  /\ feed_stop = FALSE
  /\ cur = NoEvent
  /\ rc = Unassigned
  /\ forward_event = Unassigned
  /\ ri = 0
  /\ blocked = FALSE
  /\ pipe = <<>>
  /\ child = "none"
  /\ hpc = "none"
  /\ last_kill = NoKill
  /\ nsig = 0
  /\ startfail = "none"
  /\ hist = <<>>
  /\ lastload = NoLoad
  /\ last_good = <<>>
  /\ unserved = 0
  /\ fl = NoFile
  /\ fpos = 0
  /\ buf = <<>>
  /\ too_long = 0
  /\ ld_lineno = 0
  /\ load_ret = 0
  /\ warned = <<>>
  /\ returned = <<>>
  /\ handed = <<>>

\* return from main: the low eight bits of the value are the exit status
Exit(value) ==
  /\ pc' = "exit"
  /\ status' = value % 256

(* ------------------------------- start-up ------------------------------ *)
\* the main thread is not inside a signal handler
MainRuns == hpc = "none"

\* parse_args and main's test of its result
ParseArgs ==
  /\ pc = "parse_args"
  /\ IF argv = "check"
       THEN /\ only_check' = 1
            /\ mode' = mode
            /\ pc' = "load"
            /\ status' = status
     ELSE IF argv = "invalid"
       THEN /\ UNCHANGED << mode, only_check >>
            /\ Exit(1)
     ELSE /\ mode' = (IF argv = "allowlist" THEN ALLOWLIST ELSE BLOCKLIST)
          /\ only_check' = only_check
          /\ pc' = "load"
          /\ status' = status
  /\ UNCHANGED << argv, ldVars, unserved, evVars, ruleVars, sigVars, procVars, rules_loaded, engine >>

AfterFirstLoadOnlyOne(loadrc, check) ==
  IF loadrc = 1 THEN "fail"
  ELSE IF check # 0 THEN "checked"
  ELSE "run"

AfterFirstLoadCheckFirst(loadrc, check) ==
  IF check # 0 THEN "checked"
  ELSE IF loadrc # 0 THEN "fail"
  ELSE "run"

\* main: what follows the first load_rules(&list)
AfterFirstLoad(loadrc, check) ==
  IF loadrc # 0 THEN "fail"
  ELSE IF check # 0 THEN "checked"
  ELSE "run"

\* main: the first load_rules(&list), and the validate-only exit
InitialLoad ==
  /\ pc = "load"
  /\ \E f \in FileSet :
       LET r == LoadRules(f)
       IN /\ list' = r.list
          /\ errors' = r.errors
          /\ lastload' = LoadRecord(f, r, "first")
          /\ last_good' = (IF r.rc = 0 THEN r.list ELSE last_good)
          /\ unserved' = 0
          /\ CASE AfterFirstLoad(r.rc, only_check) = "fail" -> Exit(1)
               [] AfterFirstLoad(r.rc, only_check) = "checked" -> Exit(0)
               [] OTHER -> pc' = "sigaction" /\ status' = status
  /\ UNCHANGED << cfgVars, ldVars, evVars, sigVars, procVars, rules_loaded, engine >>

\* main: the three sigaction() calls
RegisterHandlers ==
  /\ pc = "sigaction"
  /\ handlers' = TRUE
  /\ pc' = "pipe"
  /\ lastload' = NoLoad
  /\ UNCHANGED << status, cfgVars, ldVars, unserved, evVars, errors, list, last_good, sigVars, cpid,
                  pipefd, child, startfail, rules_loaded, engine >>

\* main: pipe(pipefd)
CreatePipe ==
  /\ pc = "pipe"
  /\ MainRuns
  /\ \E ok \in BOOLEAN :
       IF ok THEN pc' = "fork" /\ pipefd' = TRUE /\ UNCHANGED << status, startfail >>
       ELSE Exit(-1) /\ startfail' = "pipe" /\ pipefd' = pipefd
  /\ UNCHANGED << cfgVars, ldVars, unserved, evVars, ruleVars, sigVars, cpid, handlers, child,
                  rules_loaded, engine >>

\* main: cpid = fork()
Fork ==
  /\ pc = "fork"
  /\ MainRuns
  /\ \E ok \in BOOLEAN :
       IF ok THEN /\ cpid' = ChildPid
                  /\ child' = "forked"
                  /\ pc' = "auplugin_init"
                  /\ UNCHANGED << status, startfail >>
       ELSE /\ cpid' = -1
            /\ child' = child
            /\ startfail' = "fork"
            /\ Exit(-1)
  /\ UNCHANGED << cfgVars, ldVars, unserved, evVars, ruleVars, sigVars, handlers, pipefd, rules_loaded,
                  engine >>

\* main: auplugin_init, and the kill(cpid, SIGTERM) when it fails
AupluginInit ==
  /\ pc = "auplugin_init"
  /\ MainRuns
  /\ \E ok \in BOOLEAN :
       IF ok THEN pc' = "feed" /\ UNCHANGED << status, last_kill >>
       ELSE /\ last_kill' = << cpid, "SIGTERM" >>
            /\ Exit(-1)
  /\ UNCHANGED << cfgVars, ldVars, unserved, evVars, ruleVars, stop, hup, feed_stop, hpc, nsig,
                  procVars, rules_loaded, engine >>

(* ----------------------------- service loop --------------------------- *)
EventEntry(e) == [ n |-> e.n, st |-> "called", sent |-> 0 ]
SetStatus(h, s) == [ h EXCEPT ![Len(h)].st = s ]

\* auplugin_event_feed: the next event is handed to handle_event
FeedEvent ==
  /\ pc = "feed"
  /\ MainRuns
  /\ ~feed_stop
  /\ Len(hist) < MaxEvents
  /\ \E e \in EventSet :
       /\ cur' = e
       /\ hist' = Append(hist, EventEntry(e))
  /\ UNCHANGED << rc, forward_event, ri >>
  /\ pc' = "handle_event"
  /\ unserved' = (IF unserved = 1 THEN 2 ELSE unserved)
  /\ UNCHANGED << status, cfgVars, ldVars, blocked, pipe, ruleVars, sigVars, procVars,
                  rules_loaded, engine >>

\* auplugin_event_feed returns once auplugin_stop was called; main returns 0
FeedStop ==
  /\ pc = "feed"
  /\ MainRuns
  /\ feed_stop
  /\ Exit(0)
  /\ UNCHANGED << cfgVars, ldVars, unserved, evVars, ruleVars, sigVars, procVars, rules_loaded, engine >>

\* the for loop of handle_event that adds every rule of list to the engine
RECURSIVE RegisterRules(_, _)
RegisterRules(registered, rules) ==
  IF rules = <<>> THEN registered
  ELSE RegisterRules(Append(registered, Head(rules).expr), Tail(rules))

\* handle_event: the test of rules_loaded and hup, and, with hup set, the
\* entry of reload_config, which clears hup
HandleEventEntry ==
  /\ pc = "handle_event"
  /\ MainRuns
  /\ IF hup # 0
       THEN /\ hup' = 0
            /\ pc' = "load_rules"
            /\ UNCHANGED << engine, rules_loaded >>
     ELSE IF rules_loaded = 0
       THEN /\ engine' = RegisterRules(engine, list)
            /\ rules_loaded' = 1
            /\ pc' = "evaluate"
            /\ hup' = hup
     ELSE /\ pc' = "evaluate"
          /\ UNCHANGED << hup, engine, rules_loaded >>
  /\ UNCHANGED << status, cfgVars, ldVars, unserved, evVars, ruleVars, stop, feed_stop, hpc, last_kill,
                  nsig, procVars >>

ReloadedUnlessNegative(old, new, loadrc) == IF loadrc < 0 THEN old ELSE new

\* reload_config: which list is active after load_rules returned rc
Reloaded(old, new, loadrc) == IF loadrc # 0 THEN old ELSE new

\* reload_config after its hup = 0: load_rules(&new_list) and the swap
ReloadConfig ==
  /\ pc = "load_rules"
  /\ MainRuns
  /\ \E f \in FileSet :
       LET r == LoadRules(f)
       IN /\ errors' = r.errors
          /\ list' = Reloaded(list, r.list, r.rc)
          /\ lastload' = LoadRecord(f, r, "reload")
          /\ last_good' = (IF r.rc = 0 THEN r.list ELSE last_good)
  /\ unserved' = 0
  /\ pc' = "reloaded"
  /\ UNCHANGED << status, cfgVars, ldVars, evVars, sigVars, procVars, rules_loaded, engine >>

AfterReloadNoClear ==
  /\ pc = "reloaded"
  /\ MainRuns
  /\ hup' = 0
  /\ engine' = RegisterRules(engine, list)
  /\ rules_loaded' = 1
  /\ pc' = "evaluate"
  /\ lastload' = NoLoad
  /\ UNCHANGED << status, cfgVars, ldVars, unserved, evVars, errors, list, last_good, stop, feed_stop,
                  hpc, last_kill, nsig, procVars >>

\* handle_event after reload_config returned: hup = 0, ausearch_clear, and
\* the registration of the rules
AfterReload ==
  /\ pc = "reloaded"
  /\ MainRuns
  /\ hup' = 0
  /\ engine' = RegisterRules(<<>>, list)
  /\ rules_loaded' = 1
  /\ pc' = "evaluate"
  /\ lastload' = NoLoad
  /\ UNCHANGED << status, cfgVars, ldVars, unserved, evVars, errors, list, last_good, stop, feed_stop,
                  hpc, last_kill, nsig, procVars >>

ForwardEventSwapped(result, m) ==
  IF result > 0 THEN (IF m = ALLOWLIST THEN 1 ELSE 0)
  ELSE IF result = 0 THEN (IF m = ALLOWLIST THEN 0 ELSE 1)
  ELSE Unassigned

\* handle_event: forward_event from the engine's answer and the mode
ForwardEvent(result, m) ==
  IF result > 0 THEN (IF m = ALLOWLIST THEN 0 ELSE 1)
  ELSE IF result = 0 THEN (IF m = ALLOWLIST THEN 1 ELSE 0)
  ELSE Unassigned

\* handle_event returns: its locals are gone
Return ==
  /\ pc' = "feed"
  /\ cur' = NoEvent
  /\ rc' = Unassigned
  /\ forward_event' = Unassigned
  /\ ri' = 0

\* handle_event: ausearch_cur_event and the decision
Evaluate ==
  /\ pc = "evaluate"
  /\ MainRuns
  /\ \E fails \in BOOLEAN :
       LET result == AusearchCurEvent(cur, engine, fails)
           fwd == ForwardEvent(result, mode)
       IN IF result < 0
            THEN Return /\ hist' = SetStatus(hist, "error")
          ELSE IF fwd # 0 /\ 0 < cur.n
            THEN /\ rc' = result
                 /\ forward_event' = fwd
                 /\ ri' = 0
                 /\ pc' = "write_text"
                 /\ hist' = SetStatus(hist, "writing")
                 /\ cur' = cur
          ELSE IF fwd # 0
            THEN Return /\ hist' = SetStatus(hist, "forwarded")
          ELSE Return /\ hist' = SetStatus(hist, "dropped")
  /\ UNCHANGED << status, cfgVars, ldVars, unserved, blocked, pipe, ruleVars, sigVars, procVars,
                  rules_loaded, engine >>

WriteFailedRetries ==
  /\ blocked' = FALSE
  /\ hist' = SetStatus(hist, "aborted")
  /\ UNCHANGED << pc, locals >>

\* a write() that returned -1: handle_event logs and returns
WriteFailed ==
  /\ blocked' = FALSE
  /\ hist' = SetStatus(hist, "aborted")
  /\ Return

\* write(pipefd[1], txt, strlen(txt))
WriteText ==
  /\ pc = "write_text"
  /\ MainRuns
  /\ \E outcome \in {"written", "failed", "blocks"} :
       CASE outcome = "written" ->
              /\ pipe' = Append(pipe, RecordText(Len(hist), ri))
              /\ hist' = [ hist EXCEPT ![Len(hist)].sent = @ + 1 ]
              /\ blocked' = FALSE
              /\ pc' = "write_newline"
              /\ UNCHANGED locals
         [] outcome = "failed" ->
              /\ WriteFailed
              /\ pipe' = pipe
         [] outcome = "blocks" ->
              /\ ~blocked
              /\ blocked' = TRUE
              /\ UNCHANGED << pc, pipe, hist, locals >>
  /\ UNCHANGED << status, cfgVars, ldVars, unserved, ruleVars, sigVars, procVars, rules_loaded, engine >>

\* write(pipefd[1], "\n", 1), and the loop's i++ and test
WriteNewline ==
  /\ pc = "write_newline"
  /\ MainRuns
  /\ \E outcome \in {"written", "failed", "blocks"} :
       CASE outcome = "written" ->
              /\ pipe' = Append(pipe, NL)
              /\ blocked' = FALSE
              /\ IF ri + 1 < cur.n
                   THEN /\ pc' = "write_text"
                        /\ ri' = ri + 1
                        /\ hist' = [ hist EXCEPT ![Len(hist)].sent = @ + 1 ]
                        /\ UNCHANGED << cur, rc, forward_event >>
                   ELSE /\ Return
                        /\ hist' = [ hist EXCEPT ![Len(hist)].sent = @ + 1,
                                                 ![Len(hist)].st = "forwarded" ]
         [] outcome = "failed" ->
              /\ WriteFailed
              /\ pipe' = pipe
         [] outcome = "blocks" ->
              /\ ~blocked
              /\ blocked' = TRUE
              /\ UNCHANGED << pc, pipe, hist, locals >>
  /\ UNCHANGED << status, cfgVars, ldVars, unserved, ruleVars, sigVars, procVars, rules_loaded, engine >>

(* ------------------------------- signals ------------------------------- *)
\* a handler can run: the sigaction() calls were made and the process lives
Deliverable == handlers /\ pc # "exit" /\ hpc = "none"

\* another process sends a signal
Sent == nsig < MaxSignals /\ nsig' = nsig + 1

\* The handlers are installed without SA_RESTART (sa_flags is 0, then
\* SA_SIGINFO): when a handler returns into a write() that is blocked on the
\* full pipe, the write returns -1 with EINTR and handle_event returns.
HandlerReturns ==
  IF blocked THEN WriteFailed ELSE UNCHANGED << blocked, hist, pc, locals >>

\* hup_handler
HupHandler ==
  /\ Deliverable
  /\ Sent
  /\ last_kill' = << cpid, "SIGHUP" >>
  /\ hup' = 1
  /\ unserved' = (IF unserved = 0 THEN 1 ELSE unserved)
  /\ HandlerReturns
  /\ UNCHANGED << status, cfgVars, ldVars, pipe, ruleVars, stop, feed_stop, hpc, procVars,
                  rules_loaded, engine >>

\* term_handler, sender is not the parent: the handler returns at once
TermIgnored ==
  /\ Deliverable
  /\ Sent
  /\ \E si_pid \in { OtherPid } : si_pid # ParentPid
  /\ HandlerReturns
  /\ UNCHANGED << status, cfgVars, ldVars, unserved, pipe, ruleVars, stop, hup, feed_stop, hpc,
                  last_kill, procVars, rules_loaded, engine >>

\* term_handler, sender is the parent: kill(cpid, sig)
TermRelay ==
  /\ Deliverable
  /\ Sent
  /\ \E si_pid \in { ParentPid } : ~(si_pid # ParentPid)
  /\ last_kill' = << cpid, "SIGTERM" >>
  /\ hpc' = "term_stop"
  /\ UNCHANGED << pc, status, cfgVars, ldVars, unserved, evVars, ruleVars, stop, hup, feed_stop,
                  procVars, rules_loaded, engine >>

\* term_handler after the kill: stop = 1, auplugin_stop(), return
TermStop ==
  /\ hpc = "term_stop"
  /\ stop' = 1
  /\ feed_stop' = TRUE
  /\ hpc' = "none"
  /\ HandlerReturns
  /\ UNCHANGED << status, cfgVars, ldVars, unserved, pipe, ruleVars, hup, last_kill, nsig, procVars,
                  rules_loaded, engine >>

\* child_handler, run for the SIGCHLD of the exited child: reap, stop = 1,
\* auplugin_stop()
ChildHandler ==
  /\ Deliverable
  /\ child = "exited"
  /\ child' = "reaped"
  /\ stop' = 1
  /\ feed_stop' = TRUE
  /\ HandlerReturns
  /\ UNCHANGED << status, cfgVars, ldVars, unserved, pipe, ruleVars, hup, hpc, last_kill, nsig, cpid,
                  handlers, pipefd, startfail, rules_loaded, engine >>

(* ------------------------------ the child ------------------------------ *)
\* main, cpid == 0: execve of the consumer succeeds
ChildExec ==
  /\ pc # "exit"
  /\ child = "forked"
  /\ child' = "running"
  /\ UNCHANGED << pc, status, cfgVars, ldVars, unserved, evVars, ruleVars, sigVars, cpid, handlers,
                  pipefd, startfail, rules_loaded, engine >>

\* main, cpid == 0: execve returns, the child logs and calls exit(1)
ChildExecFails ==
  /\ pc # "exit"
  /\ child = "forked"
  /\ child' = "exited"
  /\ startfail' = "execve"
  /\ UNCHANGED << pc, status, cfgVars, ldVars, unserved, evVars, ruleVars, sigVars, cpid, handlers,
                  pipefd, rules_loaded, engine >>

\* the consumer program exits
ChildExits ==
  /\ pc # "exit"
  /\ child = "running"
  /\ child' = "exited"
  /\ UNCHANGED << pc, status, cfgVars, ldVars, unserved, evVars, ruleVars, sigVars, cpid, handlers,
                  pipefd, startfail, rules_loaded, engine >>

Next ==
  \/ ParseArgs
  \/ InitialLoad
  \/ RegisterHandlers
  \/ CreatePipe
  \/ Fork
  \/ AupluginInit
  \/ FeedEvent
  \/ FeedStop
  \/ HandleEventEntry
  \/ ReloadConfig
  \/ AfterReload
  \/ Evaluate
  \/ WriteText
  \/ WriteNewline
  \/ HupHandler
  \/ TermIgnored
  \/ TermRelay
  \/ TermStop
  \/ ChildHandler
  \/ ChildExec
  \/ ChildExecFails
  \/ ChildExits

Spec == Init /\ [][Next]_vars

(* ------------------- load_rules, one read at a time -------------------- *)
\* The same load_rules as LoadRules above, with the reads of get_line spelt
\* out byte by byte.
mainVars == << status, argv, mode, only_check, stop, hup, cpid, rules_loaded,
               handlers, pipefd, engine, feed_stop, cur, rc, forward_event, ri,
               blocked, pipe, child, hpc, last_kill, nsig, startfail, hist,
               lastload, last_good, unserved >>

\* a rule list and an error count left over from an earlier load
StaleList == << [ expr |-> << "a" >>, lineno |-> 1 ] >>
StaleErrors == 1

LoaderInit ==
  /\ pc = "load_rules_entry"
  /\ status = 0
  /\ argv = "allowlist"
  /\ mode = ALLOWLIST
  /\ only_check = 0
  /\ stop = 0
  /\ hup = 0
  /\ errors = StaleErrors
  /\ list = StaleList
  /\ cpid = CpidUnset
  /\ rules_loaded = 0
  /\ handlers = FALSE
  /\ pipefd = FALSE
  /\ engine = <<>>
  /\ feed_stop = FALSE
  /\ cur = NoEvent
  /\ rc = Unassigned
  /\ forward_event = Unassigned
  /\ ri = 0
  /\ blocked = FALSE
  /\ pipe = <<>>
  /\ child = "none"
  /\ hpc = "none"
  /\ last_kill = NoKill
  /\ nsig = 0
  /\ startfail = "none"
  /\ hist = <<>>
  /\ lastload = NoLoad
  /\ last_good = <<>>
  /\ unserved = 0
  /\ fl \in LoadFiles
  /\ fpos = 0
  /\ buf = <<>>
  /\ too_long = 0
  /\ ld_lineno = 0
  /\ load_ret = 0
  /\ warned = <<>>
  /\ returned = <<>>
  /\ handed = <<>>

\* load_rules up to fdopen: reset_rules, errors = 0, open, fstat and the
\* ownership and mode checks
LoadEnter ==
  /\ pc = "load_rules_entry"
  /\ list' = <<>>
  /\ errors' = 0
  /\ ld_lineno' = 0
  /\ IF fl.io # "ok" \/ GateRejects(fl)
       THEN load_ret' = 1 /\ pc' = "returned"
       ELSE load_ret' = load_ret /\ pc' = "get_line"
  /\ UNCHANGED << fl, fpos, buf, too_long, warned, returned, handed, mainVars >>

\* fgets_unlocked(buf, size, f): the number of bytes it stores, at most
\* size - 1 and none after a newline; 0 at the end of the file
FgetsLen(bytes, pos, size) ==
  LET avail == IF Len(bytes) - pos < size - 1 THEN Len(bytes) - pos ELSE size - 1
      nl == { k \in 1..avail : bytes[pos + k] = LF }
  IN IF nl = {} THEN avail ELSE CHOOSE k \in nl : \A j \in nl : k <= j

GetLineIterIgnoresTooLong(chunk, toolong) ==
  IF \E k \in 1..Len(chunk) : chunk[k] = LF
    THEN [ ret |-> TRUE, line |-> SubSeq(chunk, 1, Len(chunk) - 1),
           too_long |-> 0, inc |-> 0, warn |-> FALSE ]
  ELSE [ ret |-> FALSE, line |-> <<>>, too_long |-> 1, inc |-> 0,
         warn |-> (toolong = 0) ]

\* the body of get_line's while loop for what fgets stored: whether buf is
\* returned, and as what line; too_long; the increment of *lineno; whether a
\* warning is logged
GetLineIter(chunk, toolong) ==
  IF \E k \in 1..Len(chunk) : chunk[k] = LF
    THEN IF toolong = 0
           THEN [ ret |-> TRUE, line |-> SubSeq(chunk, 1, Len(chunk) - 1),
                  too_long |-> 0, inc |-> 0, warn |-> FALSE ]
         ELSE [ ret |-> FALSE, line |-> <<>>, too_long |-> 0, inc |-> 1,
                warn |-> FALSE ]
  ELSE [ ret |-> FALSE, line |-> <<>>, too_long |-> 1, inc |-> 0,
         warn |-> (toolong = 0) ]

\* the line of the file, counted from 1, that the byte after pos belongs to
LineAt(bytes, pos) == 1 + Cardinality({ k \in 1..pos : bytes[k] = LF })

\* get_line: one fgets and one pass of the while loop; too_long starts at 0
\* again in the next call once a line is returned
GetLineStep ==
  /\ pc = "get_line"
  /\ LET n == FgetsLen(fl.bytes, fpos, BufSize)
         chunk == SubSeq(fl.bytes, fpos + 1, fpos + n)
         it == GetLineIter(chunk, too_long)
     IN IF n = 0
          THEN /\ pc' = "fclose"
               /\ too_long' = 0
               /\ UNCHANGED << fpos, buf, ld_lineno, warned, returned >>
        ELSE /\ fpos' = fpos + n
             /\ buf' = (IF it.ret THEN it.line ELSE chunk)
             /\ too_long' = (IF it.ret THEN 0 ELSE it.too_long)
             /\ ld_lineno' = ld_lineno + it.inc
             /\ warned' = (IF it.warn THEN Append(warned, LineAt(fl.bytes, fpos))
                           ELSE warned)
             /\ returned' = (IF it.ret
                               THEN Append(returned, [ idx |-> LineAt(fl.bytes, fpos),
                                                       text |-> it.line ])
                             ELSE returned)
             /\ pc' = (IF it.ret THEN "parse_line" ELSE "get_line")
  /\ UNCHANGED << fl, load_ret, handed, list, errors, mainVars >>

\* load_rules: lineno++, parse_line(buf, lineno) and append_rule
ParseLineStep ==
  /\ pc = "parse_line"
  /\ LET p == ParseLine(buf, ld_lineno + 1)
     IN /\ ld_lineno' = ld_lineno + 1
        /\ list' = list \o p.rule
        /\ errors' = errors + p.err
        /\ handed' = (IF p.asked
                        THEN Append(handed, [ idx |-> returned[Len(returned)].idx,
                                              text |-> SkipSpaces(buf) ])
                      ELSE handed)
  /\ pc' = "get_line"
  /\ UNCHANGED << fl, fpos, buf, too_long, load_ret, warned, returned, mainVars >>

\* load_rules: fclose(f) and return errors
LoadReturn ==
  /\ pc = "fclose"
  /\ load_ret' = errors
  /\ pc' = "returned"
  /\ UNCHANGED << fl, fpos, buf, too_long, ld_lineno, warned, returned, handed, list,
                  errors, mainVars >>

LoaderNext ==
  \/ LoadEnter
  \/ GetLineStep
  \/ ParseLineStep
  \/ LoadReturn

LoaderSpec == LoaderInit /\ [][LoaderNext]_vars

(* ================================ claims =============================== *)
MatchesAny(e, rules) == \E i \in 1..Len(rules) : Matches(e, rules[i].expr)

\* what the policy asks for an event, a rule set and a mode
ShouldForward(e, rules, m) ==
  IF m = ALLOWLIST THEN ~MatchesAny(e, rules) ELSE MatchesAny(e, rules)

\* the step in which handle_event gets the engine's answer and decides
Decides == pc = "evaluate" /\ pc' # "evaluate"
Outcome(h) == h[Len(h)].st
Selected(h) == Outcome(h) \in {"writing", "forwarded"}

\* C1, as stated: every event handed to handle_event is selected for
\* forwarding iff, in allowlist mode, it matches no rule of the Active Rule
\* Set, and in blocklist mode, it matches at least one.
C1_ForwardIffPolicy ==
  [][Decides => (Selected(hist') <=> ShouldForward(cur, list, mode))]_vars

\* C1, amended: the same for every event on which the engine's evaluation
\* reports no error; an event whose evaluation fails is never selected.
C1_ForwardIffPolicyUnlessEngineError ==
  [][Decides =>
       IF Outcome(hist') = "error" THEN ~Selected(hist')
       ELSE (Selected(hist') <=> ShouldForward(cur, list, mode))]_vars

\* a blocklist event is being forwarded because the second of two rules,
\* and not the first, matches it
C1_Witness ==
  /\ pc = "write_text"
  /\ mode = BLOCKLIST
  /\ Len(list) = 2
  /\ ~Matches(cur, list[1].expr)
  /\ Matches(cur, list[2].expr)

\* C2: a reload whose file has a line the engine rejects leaves the Active
\* Rule Set exactly as it was before the reload.
C2_ReloadAtomicity ==
  [][pc = "load_rules" /\ pc' = "reloaded" /\ lastload'.rejected > 0 => list' = list]_vars

\* a reload has read a file with a rejected line and an accepted one, while
\* rules from an earlier load are active
C2_Witness ==
  /\ pc = "reloaded"
  /\ lastload.call = "reload"
  /\ lastload.rejected > 0
  /\ lastload.accepted > 0
  /\ list # <<>>

\* a step that runs load_rules
Loads == pc \in {"load", "load_rules"} /\ pc' # pc

\* C3: at the first load and at every reload, a file that is not owned by
\* root, or is world-writable, or is not a regular file is not read, and the
\* Active Rule Set takes nothing from it: the first load leaves it empty and
\* the process exits, a reload leaves it as it was.
C3_PermissionGate ==
  [][Loads /\ lastload'.violation =>
       /\ ~lastload'.read
       /\ IF pc = "load" THEN list' = <<>> /\ pc' = "exit" /\ status' # 0
          ELSE list' = list]_vars

\* a reload met a file that fails the gate, while rules are active
C3_Witness ==
  /\ pc = "reloaded"
  /\ lastload.call = "reload"
  /\ lastload.violation
  /\ ~lastload.read
  /\ list # <<>>

\* C4: a SIGTERM whose sender is not the parent changes nothing: no stop
\* flag, no relay, and the main thread, the event it is forwarding and the
\* pipe are where they would be without the signal.
C4_ForeignTermHasNoEffect ==
  [][TermIgnored =>
       UNCHANGED << pc, evVars, ruleVars, stop, feed_stop, hup, last_kill >>]_vars

\* a step that calls write() on the pipe
WriteAttempt ==
  /\ pc \in {"write_text", "write_newline"}
  /\ ~blocked
  /\ blocked' \/ hist' # hist

\* C5: once child_handler has reaped the exited consumer, the service loop
\* is marked to stop, no write to the pipe is attempted any more, and the
\* process leaves the service loop with exit status 0.
C5_NoWriteAfterConsumerExit ==
  [][/\ child' = "reaped" => feed_stop'
     /\ child = "reaped" => ~WriteAttempt
     /\ child = "reaped" /\ pc = "feed" /\ pc' = "exit" => status' = 0]_vars

\* the bytes of a whole event: each record's text, then a newline
EventBytes(k, n) ==
  [ j \in 1..(2 * n) |-> IF j % 2 = 1 THEN <<k, (j + 1) \div 2>> ELSE NL ]

RECURSIVE Stream(_, _)
Stream(h, k) ==
  IF k = 0 THEN <<>>
  ELSE Stream(h, k - 1) \o SubSeq(EventBytes(k, h[k].n), 1, h[k].sent)

C7_HupLosesNoData ==
  [][HupHandler => UNCHANGED << pc, evVars >>]_vars

\* C8: when term_handler honours a SIGTERM, it has relayed SIGTERM to the
\* consumer's pid before it marks the service loop to stop.
C8_TermRelayedThenStop ==
  [][hpc = "term_stop" /\ hpc' = "none" =>
       /\ last_kill = << ChildPid, "SIGTERM" >>
       /\ stop' = 1
       /\ feed_stop']_vars

\* C9: once pipe(), fork() or the consumer's execve() has failed, no event
\* is handed to handle_event, classified or written any more, and the process
\* exits with a nonzero status.
C9_StartupFailureIsFatal ==
  [][/\ startfail # "none" => hist' = hist /\ pipe' = pipe
     /\ startfail' # "none" /\ pc' = "exit" => status' # 0]_vars

FirstLoadFailed ==
  lastload.call = "first" /\ (~lastload.read \/ lastload.rejected > 0)

InServiceLoop ==
  pc \in {"feed", "handle_event", "load_rules", "reloaded", "evaluate",
          "write_text", "write_newline"}

\* C10: after a failed first load the process has exited nonzero with no
\* handler installed, no pipe, no consumer and no event processed; and
\* wherever the service loop runs, the Active Rule Set is what the latest
\* successful load produced.
C10_ActiveRulesAreLastGoodLoad ==
  /\ FirstLoadFailed =>
       /\ pc = "exit" /\ status # 0
       /\ ~handlers /\ ~pipefd /\ cpid = CpidUnset /\ child = "none"
       /\ hist = <<>> /\ pipe = <<>>
  /\ InServiceLoop => list = last_good

\* the first load read a file with a rejected line next to an accepted one
C10_Witness ==
  /\ FirstLoadFailed
  /\ lastload.read
  /\ lastload.accepted > 0
  /\ pc = "exit"
  /\ status = 1

\* C11: with --check the config is loaded once and the process exits, with
\* status 0 iff that load succeeded; no handler is installed, no pipe or
\* consumer is created and no event is handled on the way.
C11_ValidateOnly ==
  only_check = 1 =>
    /\ pc \in {"load", "exit"}
    /\ pc = "load" => lastload = NoLoad
    /\ pc = "exit" =>
         /\ lastload.call = "first"
         /\ status = 0 <=> (lastload.read /\ lastload.rejected = 0)
    /\ ~handlers /\ ~pipefd /\ cpid = CpidUnset /\ child = "none"
    /\ hist = <<>> /\ pipe = <<>> /\ engine = <<>> /\ rules_loaded = 0

\* a --check run has exited 0 on a file with two accepted rules
C11_Witness ==
  /\ only_check = 1
  /\ pc = "exit"
  /\ status = 0
  /\ lastload.accepted = 2

\* a step in which the forwarding of the current event is given up
Aborts ==
  /\ hist # <<>>
  /\ Outcome(hist) # "aborted"
  /\ Len(hist') = Len(hist)
  /\ Outcome(hist') = "aborted"

\* C12: a failed write ends the forwarding of the current event and nothing
\* else: nothing more of the event is written then or later, the write is not
\* repeated, handle_event returns to the feed with the process alive, the
\* stop flags are untouched unless the step is a handler that sets them, and
\* handle_event is left as before its first call for the next event.
C12_WriteFailureAbortsOnlyThisEvent ==
  [][/\ Aborts =>
          /\ pipe' = pipe
          /\ pc' = "feed"
          /\ blocked' = FALSE
          /\ << cur', rc', forward_event', ri' >> = << NoEvent, Unassigned, Unassigned, 0 >>
          /\ UNCHANGED << list, engine, rules_loaded, mode >>
          /\ ~(TermStop \/ ChildHandler) => UNCHANGED << stop, feed_stop >>
     /\ \A k \in 1..Len(hist) :
          hist[k].st = "aborted" => Len(hist') >= k /\ hist'[k] = hist[k]]_vars

\* the first event was given up after one of its two records, the second
\* event was then forwarded in full
C12_Witness ==
  /\ Len(hist) = 2
  /\ hist[1].st = "aborted" /\ hist[1].n = 2 /\ hist[1].sent = 2
  /\ hist[2].st = "forwarded" /\ hist[2].n = 2
  /\ pc = "feed"
  /\ stop = 0

\* the expressions of a rule list, in order
RuleExprs(rules) == [ i \in 1..Len(rules) |-> rules[i].expr ]

\* C14: whenever an event is evaluated the engine holds exactly the
\* expressions of the Active Rule Set, each once and in order; nothing is
\* registered before the first event, and outside the moment between a
\* reload's swap and its re-registration the engine never differs from the
\* Active Rule Set once rules were registered.
C14_EngineHoldsActiveRules ==
  /\ pc \in {"evaluate", "write_text", "write_newline"} =>
       rules_loaded = 1 /\ engine = RuleExprs(list)
  /\ rules_loaded = 0 => engine = <<>>
  /\ rules_loaded = 1 /\ pc # "reloaded" => engine = RuleExprs(list)

\* an event is about to be evaluated after a reload that failed on a
\* rejected line, with the two rules of the earlier load registered
C14_Witness ==
  /\ pc = "evaluate"
  /\ errors > 0
  /\ Len(list) = 2
  /\ engine = RuleExprs(list)

\* C13: hup_handler relays SIGHUP to the consumer and sets the pending flag
\* without touching the Active Rule Set or the engine; an event that finds
\* the flag set runs the loader once before it is evaluated, an event that
\* does not runs none, and the flag is cleared after the load whatever its
\* result.
C13_DeferredReload ==
  [][/\ HupHandler =>
          /\ last_kill' = << ChildPid, "SIGHUP" >>
          /\ hup' = 1
          /\ UNCHANGED << list, engine, errors, last_good, rules_loaded >>
     /\ pc = "handle_event" /\ pc' # pc =>
          IF hup # 0 THEN pc' = "load_rules" ELSE pc' = "evaluate"
     /\ pc = "load_rules" /\ pc' # pc =>
          pc' = "reloaded" /\ lastload'.call = "reload"
     /\ pc = "reloaded" /\ pc' # pc =>
          pc' = "evaluate" /\ hup' = 0]_vars

\* C18: whenever term_handler or hup_handler calls kill, cpid holds the pid
\* of the spawned consumer, never the initial -1 and never 0.
C18_RelayTargetsConsumer ==
  [][HupHandler \/ TermRelay =>
       /\ cpid \notin {CpidUnset, 0}
       /\ last_kill'[1] = ChildPid]_vars

\* C20: the stream written to the pipe is at every moment a run of complete
\* record lines, possibly followed by the line being written: record text
\* and newline alternate, so no record text follows an unterminated one.
C20_LineFraming ==
  \A j \in 1..Len(pipe) : (j % 2 = 1) <=> (pipe[j] # NL)

\* C19: a SIGHUP is not forgotten: when the event delivered next after it is
\* evaluated, either a load_rules call that began after the signal has been
\* made or the request is still pending for the following event.
C19_NoReloadRequestLost ==
  pc = "evaluate" /\ unserved = 2 => hup # 0

\* the lines of a file, in order: the bytes up to each newline, and the
\* bytes after the last newline when there are any
RECURSIVE FileLines(_)
FileLines(bytes) ==
  IF bytes = <<>> THEN <<>>
  ELSE LET nl == { k \in 1..Len(bytes) : bytes[k] = LF }
       IN IF nl = {} THEN << [ text |-> bytes, term |-> FALSE ] >>
          ELSE LET k == CHOOSE k \in nl : \A j \in nl : k <= j
               IN << [ text |-> SubSeq(bytes, 1, k - 1), term |-> TRUE ] >>
                    \o FileLines(SubSeq(bytes, k + 1, Len(bytes)))

\* the file passed open() and the checks on its owner and mode
Passed == fl.io = "ok" /\ ~GateViolation(fl)

\* the longest line that fits buf together with its newline and the final 0
MaxLine == BufSize - 2

AcceptedHanded == SelectSeq(handed, LAMBDA h : EngineAccepts(h.text))

\* C15: load_rules fails a file it cannot open or that fails the checks; any
\* other file it reads to its end, its error count is the number of
\* expressions the engine rejected, its list is the expressions the engine
\* accepted, each a line of the file without its leading spaces, in file
\* order and under its line number, and it fails iff the count is not 0.
C15_LoadRulesResult ==
  pc = "returned" =>
    IF Passed
      THEN /\ fpos = Len(fl.bytes)
           /\ errors = Cardinality({ j \in 1..Len(handed) : ~EngineAccepts(handed[j].text) })
           /\ list = [ j \in 1..Len(AcceptedHanded) |->
                         [ expr |-> AcceptedHanded[j].text,
                           lineno |-> AcceptedHanded[j].idx ] ]
           /\ \A j \in 1..Len(handed) :
                /\ handed[j].idx \in 1..Len(FileLines(fl.bytes))
                /\ handed[j].text = SkipSpaces(FileLines(fl.bytes)[handed[j].idx].text)
                /\ j > 1 => handed[j - 1].idx < handed[j].idx
           /\ (load_ret # 0) <=> (errors # 0)
    ELSE load_ret # 0 /\ list = <<>> /\ fpos = 0 /\ handed = <<>>

\* a file of three lines, the second rejected and the third behind a
\* leading space, was read to its end
C15_Witness ==
  /\ pc = "returned"
  /\ Passed
  /\ fpos = Len(fl.bytes)
  /\ errors = 1
  /\ load_ret = 1
  /\ list = << [ expr |-> << "a" >>, lineno |-> 1 ], [ expr |-> << "a" >>, lineno |-> 3 ] >>
  /\ FileLines(fl.bytes)[3].text = << " ", "a" >>

\* a line that is not blank, not a comment and not longer than MaxLine
Eligible(l) ==
  LET t == SkipSpaces(l.text)
  IN t # <<>> /\ Head(t) # "#" /\ Len(l.text) <= MaxLine

\* C16: once load_rules has read a file, every line of it that is not
\* blank, not a comment and not over-long, the last line included, was
\* passed to the engine, without its leading spaces.
C16_EveryEligibleLineIsHanded ==
  pc = "returned" /\ Passed =>
    \A i \in 1..Len(FileLines(fl.bytes)) :
      Eligible(FileLines(fl.bytes)[i]) =>
        \E j \in 1..Len(handed) :
          handed[j] = [ idx |-> i, text |-> SkipSpaces(FileLines(fl.bytes)[i].text) ]

\* C17: for every line longer than MaxLine, whatever the number of reads it
\* takes: one warning is logged, nothing of the line is returned by
\* get_line, passed to the engine or made a rule, and the line after its
\* newline, when it fits and is complete, is returned whole as a line of its
\* own.
C17_OverlongLineSkippedOnce ==
  pc = "returned" /\ Passed =>
    LET lines == FileLines(fl.bytes)
    IN \A i \in 1..Len(lines) :
         Len(lines[i].text) > MaxLine =>
           /\ Cardinality({ j \in 1..Len(warned) : warned[j] = i }) = 1
           /\ \A j \in 1..Len(returned) : returned[j].idx # i
           /\ \A j \in 1..Len(handed) : handed[j].idx # i
           /\ \A j \in 1..Len(list) : list[j].lineno # i
           /\ (/\ i < Len(lines)
               /\ lines[i + 1].term
               /\ Len(lines[i + 1].text) <= MaxLine) =>
                \E j \in 1..Len(returned) :
                  returned[j] = [ idx |-> i + 1, text |-> lines[i + 1].text ]

\* a first line that took two reads was skipped with one warning, and the
\* line after it became the rule of line 2
C17_Witness ==
  /\ pc = "returned"
  /\ Passed
  /\ Len(FileLines(fl.bytes)) = 2
  /\ Len(FileLines(fl.bytes)[1].text) > BufSize - 1
  /\ warned = << 1 >>
  /\ returned = << [ idx |-> 2, text |-> << "a" >> ] >>
  /\ list = << [ expr |-> << "a" >>, lineno |-> 2 ] >>

====
